---- MODULE Spec2Model ----
(***************************************************************************)
(* The scraper control panel (function App) and its page source.           *)
(*                                                                         *)
(* App is a React function component.  Its state is the useState cells;    *)
(* every handler (a click, the continuation of the awaited page fetch, the *)
(* pacing timer) runs to completion, its state updates are applied as one  *)
(* batch, the component renders once and the effects whose dependencies    *)
(* changed run.  One action of this module is one such handler together    *)
(* with the render and the effects that follow it.                         *)
(*                                                                         *)
(* processNextPage is a useCallback closure: an invocation reads the       *)
(* isRunning, currentPage and processedCount of the render that created    *)
(* it, and the processNextPage it re-invokes from its pacing timer is that *)
(* same closure.  The values an invocation reads are therefore carried in  *)
(* the invocation (field closure), apart from the state cells.             *)
(*                                                                         *)
(* Updates are batched as React 18's createRoot batches them, in timers    *)
(* and promise continuations too: setIsProcessing(false) followed by       *)
(* setIsProcessing(true) in one timer callback renders once, with true.    *)
(*                                                                         *)
(* The page source is the contract fetchCharityPage stands for: a page of  *)
(* any size with its continuation flag, or a failure.  The pages of the    *)
(* built-in generator are too small to fill a batch.                       *)
(*                                                                         *)
(* Spec takes the handlers as the rendered buttons allow them.  SpecCalls  *)
(* and SpecReentry call startScraping, pauseScraping, resetScraper and     *)
(* exportToCSV in any state, as the functions themselves permit, with at   *)
(* most MaxPending and MaxCalls invocations pending.  SpecExport mounts    *)
(* the component on a stored snapshot and exports it; the file is kept as  *)
(* the records it serialises and csvContent gives its text.                *)
(* SpecReload adds reloads of the page, which construct App anew on what   *)
(* localStorage holds.  SpecBuiltin runs the control panel on              *)
(* fetchCharityPage as written, with the outcome of its request as input.  *)
(* SpecRun follows one run on that source from start() on, under weak      *)
(* fairness of fetch completions and timer firings.  SpecScrape applies    *)
(* scrapeWebpage, and with it extractState, to documents of one item.      *)
(***************************************************************************)
EXTENDS Integers, Sequences, FiniteSets, TLC

\* ---------------------------------------------------------------- bounds

\* Non-empty pages are returned only while currentPage < MaxCursor.
MaxCursor == 3
\* Invocations of processNextPage that are awaiting a fetch or a timer.
MaxCalls == 2
\* Records in the store of the export scenarios.
MaxRecords == 3
\* Calls of the page source in the exhaustion scenario.
ScenarioCalls == 5
\* processedCount where the handlers are called in any state: a reset with
\* invocations pending lets it grow from run to run.
MaxProcessed == 2
\* Invocations pending at once where the handlers are called in any state.
MaxPending == 1
\* Fetches of a run on the built-in page source.
RunFetches == 21
\* Records in the store where the page is reloaded: every reload starts the
\* cursor at 1 again on the restored store.
MaxStore == 4

\* ------------------------------------------------------------- constants

\* The literal 1000 of processNextPage.
BATCH_LIMIT == 1000

\* The sourceUrl of the default configuration, and another one typed into
\* the Source URL input.
DefaultUrl == "https://www.charitynavigator.org/search?page="
OtherUrl == "https://example.com/page="
Urls == {DefaultUrl, OtherUrl}

\* let scraperConfig: ScraperConfig = {...}; the selectors are never changed.
DefaultConfig == [sourceUrl |-> DefaultUrl, selectors |-> "default"]

\* scraperConfig = { ...scraperConfig, ...config }
updateScraperConfig(old, config) ==
  [k \in DOMAIN old \cup DOMAIN config |->
     IF k \in DOMAIN config THEN config[k] ELSE old[k]]

\* ------------------------------------------------------------ data model

\* A string is the sequence of its characters.  email: string | null is a
\* sequence of no string or of one.
Null == <<>>
Some(text) == <<text>>

\* interface Charity
Charity(name, address, website, email, state) ==
  [name |-> name, address |-> address, website |-> website, email |-> email,
   state |-> state]

\* The names and region codes of the pages below.
NameA == <<"A">>
NameB == <<"B">>
DC == <<"D", "C">>
IL == <<"I", "L">>
Unknown == <<"U", "n", "k", "n", "o", "w", "n">>

\* A record as scrapeWebpage builds it from an item with a name only.
PlainCharity(name, state) == Charity(name, <<>>, <<>>, Null, state)

\* A page that alone nearly fills a batch.
BigPage == [i \in 1..(BATCH_LIMIT - 1) |-> PlainCharity(NameA, DC)]

\* The ordinary pages: one record, and two records of different regions.
SmallPages == {<<PlainCharity(NameA, DC)>>, <<PlainCharity(NameB, IL), PlainCharity(NameA, DC)>>}

PageChoices == SmallPages \cup {BigPage}

\* What the awaited fetchCharityPage(currentPage) settles to: a page with
\* its continuation flag, or a rejection.
OkResponse(cs, more) == [kind |-> "ok", charities |-> cs, hasMore |-> more]
ErrorResponse == [kind |-> "error", charities |-> <<>>, hasMore |-> FALSE]

\* The Page Source as the controller sees it: any page, any flag, or a failure.
AnySource(cursor) ==
  {ErrorResponse}
    \cup {OkResponse(<<>>, m) : m \in BOOLEAN}
    \cup (IF cursor < MaxCursor
          THEN {OkResponse(p, m) : p \in PageChoices, m \in BOOLEAN}
          ELSE {})

\* A Page Source of one-record pages that announce more, with the end of
\* the source and the failure.
PlainSource(cursor) ==
  {ErrorResponse, OkResponse(<<>>, FALSE)}
    \cup (IF cursor < MaxCursor
          THEN {OkResponse(<<PlainCharity(NameA, DC)>>, TRUE)}
          ELSE {})

\* The source the exhaustion scenario supposes: non-empty pages on calls
\* 1..ScenarioCalls, continuation false on call ScenarioCalls, empty after.
ScenarioSource(call) ==
  IF call <= ScenarioCalls
  THEN {OkResponse(p, call < ScenarioCalls) : p \in SmallPages}
  ELSE {OkResponse(<<>>, FALSE)}

\* The records of the export scenarios: names, addresses, websites and
\* emails with double quotes, commas and a line break in them, an email that
\* is null, records of one name that differ, and the regions extractState
\* gives.
ExportNames == {NameB, <<"A", "\"", ",">>}
ExportTexts == {<<>>, <<",", "\"", "\"", "\n">>}
ExportEmails == {Null, Some(<<"\"", "A">>)}
ExportCharities ==
  {Charity(n, a, a, e, IF e = Null THEN Unknown ELSE DC) :
     n \in ExportNames, a \in ExportTexts, e \in ExportEmails}

ExportStores == UNION {[1..k -> ExportCharities] : k \in 1..MaxRecords}

\* ----------------------------------------------- the built-in page source

\* const statesList = ['CA', 'NY', ...] of generateMoreCharities
statesList ==
  << <<"C", "A">>, <<"N", "Y">>, <<"T", "X">>, <<"F", "L">>,
     <<"I", "L">>, <<"P", "A">>, <<"O", "H">>, <<"G", "A">>,
     <<"N", "C">>, <<"M", "I">>, <<"V", "A">>, <<"W", "A">>,
     <<"A", "Z">>, <<"M", "A">>, <<"T", "N">>, <<"I", "N">>,
     <<"M", "O">>, <<"M", "D">>, <<"W", "I">>, <<"C", "O">> >>

\* The names and states of realCharityData; the addresses, websites and
\* emails of the built-in records are left out.
realCharityNames ==
  << <<"A", "m", "e", "r", "i", "c", "a", "n", " ", "R", "e", "d", " ", "C", "r", "o", "s", "s">>,
     <<"F", "e", "e", "d", "i", "n", "g", " ", "A", "m", "e", "r", "i", "c", "a">>,
     <<"H", "a", "b", "i", "t", "a", "t", " ", "f", "o", "r", " ", "H", "u", "m", "a", "n", "i", "t", "y">>,
     <<"S", "t", ".", " ", "J", "u", "d", "e", " ", "C", "h", "i", "l", "d", "r", "e", "n", "'", "s", " ", "R", "e", "s", "e", "a", "r", "c", "h", " ", "H", "o", "s", "p", "i", "t", "a", "l">>,
     <<"U", "n", "i", "t", "e", "d", " ", "W", "a", "y", " ", "W", "o", "r", "l", "d", "w", "i", "d", "e">>,
     <<"D", "o", "c", "t", "o", "r", "s", " ", "W", "i", "t", "h", "o", "u", "t", " ", "B", "o", "r", "d", "e", "r", "s">>,
     <<"W", "o", "r", "l", "d", " ", "W", "i", "l", "d", "l", "i", "f", "e", " ", "F", "u", "n", "d">>,
     <<"T", "h", "e", " ", "S", "a", "l", "v", "a", "t", "i", "o", "n", " ", "A", "r", "m", "y">>,
     <<"B", "o", "y", "s", " ", "&", " ", "G", "i", "r", "l", "s", " ", "C", "l", "u", "b", "s", " ", "o", "f", " ", "A", "m", "e", "r", "i", "c", "a">>,
     <<"M", "a", "k", "e", "-", "A", "-", "W", "i", "s", "h", " ", "F", "o", "u", "n", "d", "a", "t", "i", "o", "n">> >>

realCharityStates ==
  << <<"D", "C">>, <<"I", "L">>, <<"G", "A">>, <<"T", "N">>, <<"V", "A">>, <<"N", "Y">>, <<"D", "C">>, <<"V", "A">>, <<"G", "A">>, <<"A", "Z">> >>

realCharityData ==
  [i \in DOMAIN realCharityNames |->
     PlainCharity(realCharityNames[i], realCharityStates[i])]

\* `${n}` for a number n >= 0: its decimal digits.
RECURSIVE Digits(_)
Digits(n) ==
  LET digit(d) == <<"0", "1", "2", "3", "4", "5", "6", "7", "8", "9">>[d + 1]
  IN IF n < 10 THEN <<digit(n)>> ELSE Digits(n \div 10) \o <<digit(n % 10)>>

\* generateMoreCharities(page, count): record i (from 0) has the index
\* (page - 1) * count + i, the state statesList[index % 20] and the name
\* `${realCharityData[index % 10].name} ${index + 1}`.
generateMoreCharities(page, count) ==
  [k \in 1..count |->
     LET index == (page - 1) * count + (k - 1)
     IN PlainCharity(realCharityNames[(index % Len(realCharityNames)) + 1]
                       \o <<" ">> \o Digits(index + 1),
                     statesList[(index % Len(statesList)) + 1])]

\* ---------------------------------------------------------- extractState

\* The least of a set of numbers.
Least(S) == CHOOSE x \in S : \A y \in S : x <= y

\* The character classes [A-Z], \s and \d.
IsUpper(c) ==
  c \in {"A", "B", "C", "D", "E", "F", "G", "H", "I", "J", "K", "L", "M",
         "N", "O", "P", "Q", "R", "S", "T", "U", "V", "W", "X", "Y", "Z"}
IsSpace(c) == c \in {" ", "\t", "\n", "\r", "\f"}
IsDigit(c) == c \in {"0", "1", "2", "3", "4", "5", "6", "7", "8", "9"}

\* /([A-Z]{2})\s+\d{5}(-\d{4})?/ matches from position i: two capitals, one
\* or more white-space characters, five digits.  The optional group changes
\* neither whether nor where the expression matches.
ZipAt(address, i) ==
  /\ i + 1 <= Len(address)
  /\ IsUpper(address[i]) /\ IsUpper(address[i + 1])
  /\ \E k \in 1..Len(address) :
       /\ i + 6 + k <= Len(address)
       /\ \A j \in (i + 2)..(i + 1 + k) : IsSpace(address[j])
       /\ \A j \in (i + 2 + k)..(i + 6 + k) : IsDigit(address[j])

\* address.match(...): null, or the match that begins leftmost, of which
\* group 1 is kept.
stateZipMatch(address) ==
  LET starts == {i \in DOMAIN address : ZipAt(address, i)}
  IN IF starts = {} THEN Null
     ELSE Some(SubSeq(address, Least(starts), Least(starts) + 1))

\* const states: Record<string, string>, in the order of its entries.
statesTable ==
  << <<<<"A", "l", "a", "b", "a", "m", "a">>, <<"A", "L">>>>,
     <<<<"A", "l", "a", "s", "k", "a">>, <<"A", "K">>>>,
     <<<<"A", "r", "i", "z", "o", "n", "a">>, <<"A", "Z">>>>,
     <<<<"A", "r", "k", "a", "n", "s", "a", "s">>, <<"A", "R">>>>,
     <<<<"C", "a", "l", "i", "f", "o", "r", "n", "i", "a">>, <<"C", "A">>>>,
     <<<<"C", "o", "l", "o", "r", "a", "d", "o">>, <<"C", "O">>>>,
     <<<<"C", "o", "n", "n", "e", "c", "t", "i", "c", "u", "t">>, <<"C", "T">>>>,
     <<<<"D", "e", "l", "a", "w", "a", "r", "e">>, <<"D", "E">>>>,
     <<<<"F", "l", "o", "r", "i", "d", "a">>, <<"F", "L">>>>,
     <<<<"G", "e", "o", "r", "g", "i", "a">>, <<"G", "A">>>>,
     <<<<"H", "a", "w", "a", "i", "i">>, <<"H", "I">>>>,
     <<<<"I", "d", "a", "h", "o">>, <<"I", "D">>>>,
     <<<<"I", "l", "l", "i", "n", "o", "i", "s">>, <<"I", "L">>>>,
     <<<<"I", "n", "d", "i", "a", "n", "a">>, <<"I", "N">>>>,
     <<<<"I", "o", "w", "a">>, <<"I", "A">>>>,
     <<<<"K", "a", "n", "s", "a", "s">>, <<"K", "S">>>>,
     <<<<"K", "e", "n", "t", "u", "c", "k", "y">>, <<"K", "Y">>>>,
     <<<<"L", "o", "u", "i", "s", "i", "a", "n", "a">>, <<"L", "A">>>>,
     <<<<"M", "a", "i", "n", "e">>, <<"M", "E">>>>,
     <<<<"M", "a", "r", "y", "l", "a", "n", "d">>, <<"M", "D">>>>,
     <<<<"M", "a", "s", "s", "a", "c", "h", "u", "s", "e", "t", "t", "s">>, <<"M", "A">>>>,
     <<<<"M", "i", "c", "h", "i", "g", "a", "n">>, <<"M", "I">>>>,
     <<<<"M", "i", "n", "n", "e", "s", "o", "t", "a">>, <<"M", "N">>>>,
     <<<<"M", "i", "s", "s", "i", "s", "s", "i", "p", "p", "i">>, <<"M", "S">>>>,
     <<<<"M", "i", "s", "s", "o", "u", "r", "i">>, <<"M", "O">>>>,
     <<<<"M", "o", "n", "t", "a", "n", "a">>, <<"M", "T">>>>,
     <<<<"N", "e", "b", "r", "a", "s", "k", "a">>, <<"N", "E">>>>,
     <<<<"N", "e", "v", "a", "d", "a">>, <<"N", "V">>>>,
     <<<<"N", "e", "w", " ", "H", "a", "m", "p", "s", "h", "i", "r", "e">>, <<"N", "H">>>>,
     <<<<"N", "e", "w", " ", "J", "e", "r", "s", "e", "y">>, <<"N", "J">>>>,
     <<<<"N", "e", "w", " ", "M", "e", "x", "i", "c", "o">>, <<"N", "M">>>>,
     <<<<"N", "e", "w", " ", "Y", "o", "r", "k">>, <<"N", "Y">>>>,
     <<<<"N", "o", "r", "t", "h", " ", "C", "a", "r", "o", "l", "i", "n", "a">>, <<"N", "C">>>>,
     <<<<"N", "o", "r", "t", "h", " ", "D", "a", "k", "o", "t", "a">>, <<"N", "D">>>>,
     <<<<"O", "h", "i", "o">>, <<"O", "H">>>>,
     <<<<"O", "k", "l", "a", "h", "o", "m", "a">>, <<"O", "K">>>>,
     <<<<"O", "r", "e", "g", "o", "n">>, <<"O", "R">>>>,
     <<<<"P", "e", "n", "n", "s", "y", "l", "v", "a", "n", "i", "a">>, <<"P", "A">>>>,
     <<<<"R", "h", "o", "d", "e", " ", "I", "s", "l", "a", "n", "d">>, <<"R", "I">>>>,
     <<<<"S", "o", "u", "t", "h", " ", "C", "a", "r", "o", "l", "i", "n", "a">>, <<"S", "C">>>>,
     <<<<"S", "o", "u", "t", "h", " ", "D", "a", "k", "o", "t", "a">>, <<"S", "D">>>>,
     <<<<"T", "e", "n", "n", "e", "s", "s", "e", "e">>, <<"T", "N">>>>,
     <<<<"T", "e", "x", "a", "s">>, <<"T", "X">>>>,
     <<<<"U", "t", "a", "h">>, <<"U", "T">>>>,
     <<<<"V", "e", "r", "m", "o", "n", "t">>, <<"V", "T">>>>,
     <<<<"V", "i", "r", "g", "i", "n", "i", "a">>, <<"V", "A">>>>,
     <<<<"W", "a", "s", "h", "i", "n", "g", "t", "o", "n">>, <<"W", "A">>>>,
     <<<<"W", "e", "s", "t", " ", "V", "i", "r", "g", "i", "n", "i", "a">>, <<"W", "V">>>>,
     <<<<"W", "i", "s", "c", "o", "n", "s", "i", "n">>, <<"W", "I">>>>,
     <<<<"W", "y", "o", "m", "i", "n", "g">>, <<"W", "Y">>>>,
     <<<<"D", "i", "s", "t", "r", "i", "c", "t", " ", "o", "f", " ", "C", "o", "l", "u", "m", "b", "i", "a">>, <<"D", "C">>>> >>

\* text.includes(part)
includes(text, part) ==
  \E i \in 1..(Len(text) - Len(part) + 1) :
    SubSeq(text, i, i + Len(part) - 1) = part

\* extractState(address): the loop over Object.entries(states) returns at the
\* first entry, in the order of the table, whose name the address includes.
extractState(address) ==
  IF address = <<>> THEN Unknown
  ELSE LET match == stateZipMatch(address)
           found == {j \in DOMAIN statesTable : includes(address, statesTable[j][1])}
       IN IF match # Null THEN match[1]
          ELSE IF found # {} THEN statesTable[Least(found)][2]
          ELSE Unknown

\* The addresses considered: a street, a place and an end, with and without
\* a postal code after a region code, region names that are part of other
\* region names, and text in small letters.
Streets ==
  { <<>>,
    <<"4", "3", "1", " ", "1", "8", "t", "h", " ", "S", "t", "r", "e", "e", "t", " ", "N", "W", ",", " ">>,
    <<"P", "O", " ", "B", "O", "X", " ", "1", "2", ",", " ">> }
Places ==
  { <<>>,
    <<"N", "o", "w", "h", "e", "r", "e">>,
    <<"C", "h", "i", "c", "a", "g", "o">>,
    <<"W", "a", "s", "h", "i", "n", "g", "t", "o", "n">>,
    <<"D", "i", "s", "t", "r", "i", "c", "t", " ", "o", "f", " ", "C", "o", "l", "u", "m", "b", "i", "a">>,
    <<"V", "i", "r", "g", "i", "n", "i", "a">>,
    <<"W", "e", "s", "t", " ", "V", "i", "r", "g", "i", "n", "i", "a">>,
    <<"A", "r", "k", "a", "n", "s", "a", "s">>,
    <<"n", "e", "w", " ", "y", "o", "r", "k">> }
Ends ==
  { <<>>,
    <<",", " ", "D", "C", " ", "2", "0", "0", "0", "6">>,
    <<",", " ", "I", "L", " ", "6", "0", "6", "0", "1", "-", "1", "2", "3", "4">>,
    <<" ", "W", "V", "2", "5", "3", "0", "1">>,
    <<",", " ", "i", "l", " ", "6", "0", "6", "0", "1">>,
    <<" ", "2", "0", "0", "0", "6">>,
    <<",", " ", "T", "X", " ", " ", "7", "5", "0", "0">> }
Addresses == {street \o place \o end : street \in Streets, place \in Places, end \in Ends}

\* What axios.get(url) does: it rejects, or it resolves with a document
\* whose items have the given names and addresses ('' for an item without).
Item(name, address) == [name |-> name, address |-> address]
Rejected == [kind |-> "rejected", items |-> <<>>]
Html(items) == [kind |-> "html", items |-> items]
Nets ==
  {Rejected, Html(<<>>),
   Html(<<Item(NameA, <<>>), Item(<<>>, <<>>), Item(NameB, <<>>)>>)}

\* scrapeWebpage: a record for every item of the document that has a name,
\* with the state extractState finds in its address; [] if axios.get or
\* cheerio throws.  The website of an item is left out.
scrapeWebpage(net) ==
  IF net.kind = "rejected" THEN <<>>
  ELSE LET named == SelectSeq(net.items, LAMBDA item : item.name # <<>>)
       IN [i \in DOMAIN named |->
             Charity(named[i].name, named[i].address, <<>>, Null,
                     extractState(named[i].address))]

\* Math.floor(Math.random() * 6) + 5
Counts == 5..10

\* fetchCharityPage(pageNumber): it awaits scrapeWebpage, makes no use of
\* what that returns, and resolves with the demonstration data.  Nothing in
\* its try block throws, scrapeWebpage catching its own errors, so the catch
\* of lines 302-308 is never entered and the promise never rejects.  The
\* outcome of axios.get is kept with the response.
fetchCharityPage(pageNumber, net, count) ==
  LET charities == scrapeWebpage(net)
      resolve(value) ==
        [kind |-> "ok", charities |-> value.charities,
         hasMore |-> value.hasMore, net |-> net]
  IN IF pageNumber = 1
     THEN resolve([charities |-> realCharityData, hasMore |-> TRUE])
     ELSE IF pageNumber > 20
          THEN resolve([charities |-> <<>>, hasMore |-> FALSE])
          ELSE resolve([charities |-> generateMoreCharities(pageNumber, count),
                        hasMore |-> pageNumber < 20])

\* What a fetch of the page may settle to.
BuiltinResponses(pageNumber) ==
  {fetchCharityPage(pageNumber, net, count) : net \in Nets, count \in Counts}

BuiltinSource == UNION {BuiltinResponses(pageNumber) : pageNumber \in 1..MaxCursor}

\* ------------------------------------------------------- local storage

\* localStorage['scrapedData']: absent, or a text.
NoItem == [present |-> FALSE, valid |-> FALSE, value |-> <<>>]
CorruptItem == [present |-> TRUE, valid |-> FALSE, value |-> <<>>]

JSONstringify(data) == [present |-> TRUE, valid |-> TRUE, value |-> data]

\* JSON.parse: the value, or a SyntaxError.
JSONparse(item) ==
  IF item.valid THEN [threw |-> FALSE, value |-> item.value]
  ELSE [threw |-> TRUE, value |-> <<>>]

InitialItems ==
  {NoItem, CorruptItem}
    \cup {JSONstringify(<<PlainCharity(NameB, IL), PlainCharity(NameA, DC)>>)}

\* ------------------------------------------------------------ the state

VARIABLES
  isRunning,       \* useState(false)
  currentPage,     \* useState(1)
  processedCount,  \* useState(0)
  log,             \* the last message of the log
  states,          \* useState({}): region -> count
  charityData,     \* useState([])
  hasMorePages,    \* useState(true)
  isProcessing,    \* useState(false)
  localStorage,    \* the 'scrapedData' item
  sourceUrl,       \* useState(scraperConfig.sourceUrl): the Source URL input
  appConfig,       \* useState(getScraperConfig()): App's scraperConfig cell
  scraperConfig,   \* the module-level scraperConfig of api/scraper.ts
  calls,           \* invocations of processNextPage awaiting a fetch or a timer
  fetchCount,      \* fetchCharityPage calls issued since the last accepted start
                   \* or reset
  commits,         \* non-empty pages committed since construction or reset
  last             \* the handler that ran last, the invocation it resumed,
                   \* the page index of the fetch it issued (0: none) and the
                   \* file it offered for download, or the records a
                   \* scrape returned

vars == <<isRunning, currentPage, processedCount, log, states, charityData,
          hasMorePages, isProcessing, localStorage, sourceUrl, appConfig,
          scraperConfig, calls, fetchCount, commits, last>>

\* No invocation.
NoCall ==
  [pc |-> "none",
   closure |-> [isRunning |-> FALSE, currentPage |-> 0, processedCount |-> 0],
   page |-> 0, resp |-> ErrorResponse]

\* No file offered for download.
NoFile == [present |-> FALSE, rows |-> <<>>]

Event(op, call) ==
  [op |-> op, call |-> call, issued |-> 0, file |-> NoFile, scraped |-> <<>>]

\* The state as one record, so that a handler is a function of it.
Cur ==
  [isRunning |-> isRunning, currentPage |-> currentPage,
   processedCount |-> processedCount, log |-> log, states |-> states,
   charityData |-> charityData, hasMorePages |-> hasMorePages,
   isProcessing |-> isProcessing, localStorage |-> localStorage,
   sourceUrl |-> sourceUrl, appConfig |-> appConfig,
   scraperConfig |-> scraperConfig, calls |-> calls, fetchCount |-> fetchCount, commits |-> commits,
   last |-> last]

Fresh ==
  [isRunning |-> FALSE, currentPage |-> 1, processedCount |-> 0, log |-> "none",
   states |-> <<>>, charityData |-> <<>>, hasMorePages |-> TRUE,
   isProcessing |-> FALSE, localStorage |-> NoItem,
   sourceUrl |-> DefaultConfig.sourceUrl, appConfig |-> DefaultConfig,
   scraperConfig |-> DefaultConfig, calls |-> <<>>,
   fetchCount |-> 0, commits |-> 0, last |-> Event("mount", NoCall)]

\* --------------------------------------------------------------- helpers

\* charity.state || 'Unknown'
RegionKey(charity) == IF charity.state = <<>> THEN Unknown ELSE charity.state

\* const newStates = { ...prev }; charities.forEach(charity => bump): every
\* key of prev or of the page, counted up once per charity of the page.
CountStates(prev, charities) ==
  LET keys == {RegionKey(charities[i]) : i \in DOMAIN charities}
      bumps(r) == Cardinality({i \in DOMAIN charities : RegionKey(charities[i]) = r})
  IN [r \in DOMAIN prev \cup keys |->
        (IF r \in DOMAIN prev THEN prev[r] ELSE 0) + bumps(r)]

RemoveAt(q, i) == [j \in 1..(Len(q) - 1) |-> IF j < i THEN q[j] ELSE q[j + 1]]

\* ------------------------------------------------------- processNextPage

\* The values a processNextPage closure reads: the dependencies
\* [currentPage, processedCount, isRunning] of the render that created it.
Closure(s) ==
  [isRunning |-> s.isRunning, currentPage |-> s.currentPage,
   processedCount |-> s.processedCount]

\* if (!isRunning || processedCount >= 1000), on the closure's values.
LoopGuardStops(closure) ==
  ~closure.isRunning \/ closure.processedCount >= BATCH_LIMIT

\* fetchCharityPage(currentPage): the page index the invocation asks for.
RequestedPage(closure) == closure.currentPage

\* processNextPage up to its await: the guard, then setIsProcessing(true) and
\* the fetch of the closure's page, whose outcome is resp.
ProcessNextPage(s, closure, resp) ==
  IF LoopGuardStops(closure)
  THEN [s EXCEPT !.isProcessing = FALSE]
  ELSE [s EXCEPT !.isProcessing = TRUE,
                 !.log = "processing",
                 !.calls = Append(@, [pc |-> "fetch", closure |-> closure,
                                      page |-> RequestedPage(closure),
                                      resp |-> resp]),
                 !.fetchCount = @ + 1,
                 !.last.issued = RequestedPage(closure)]

\* Faulty variant: the tally of the page replaces the tally.
MergeStates_Overwrite(prev, charities) == CountStates(<<>>, charities)

\* setStates(prev => ...)
MergeStates(prev, charities) == CountStates(prev, charities)

\* Faulty variant: the page replaces the store.
MergeCharityData_Replace(prev, charities) == charities

\* Faulty variant: [...charities, ...prev], the page put before the store.
MergeCharityData_Prepend(prev, charities) == charities \o prev

\* setCharityData(prev => [...prev, ...charities])
MergeCharityData(prev, charities) == prev \o charities

\* Faulty variant: setCurrentPage(currentPage + 1), on the closure's value.
AdvancePage_FromClosure(prev, closure) == closure.currentPage + 1

\* setCurrentPage(prev => prev + 1)
AdvancePage(prev, closure) == prev + 1

\* const newProcessedCount = processedCount + charities.length
NewProcessedCount(closure, charities) == closure.processedCount + Len(charities)

\* Faulty variant: no ceiling.
ClampProcessed_None(n) == n

\* newProcessedCount > 1000 ? 1000 : newProcessedCount
ClampProcessed(n) == IF n > BATCH_LIMIT THEN BATCH_LIMIT ELSE n

\* setIsRunning(false); setIsProcessing(false); return
Halt(s, message) ==
  [s EXCEPT !.isRunning = FALSE, !.isProcessing = FALSE, !.log = message]

\* Faulty variant: setHasMorePages(false) left out.
OnEmptyPage_KeepsFlag(s) == Halt(s, "complete")

\* if (charities.length === 0) { ... }
OnEmptyPage(s) == Halt([s EXCEPT !.hasMorePages = FALSE], "complete")

\* Faulty variant: setIsRunning(false) left out.
OnFetchError_KeepsRunning(s) == [s EXCEPT !.isProcessing = FALSE, !.log = "error"]

\* catch (error) { ... }
OnFetchError(s) == Halt(s, "error")

\* Faulty variant: setIsRunning(false) left out.
OnBatchFull_KeepsRunning(s) == [s EXCEPT !.isProcessing = FALSE, !.log = "batch"]

\* if (newProcessedCount >= 1000) { ... }
OnBatchFull(s) == Halt(s, "batch")

\* The merge of a non-empty page, lines 74-94.
CommitPage(s, closure, charities) ==
  [s EXCEPT !.states = MergeStates(@, charities),
            !.charityData = MergeCharityData(@, charities),
            !.currentPage = AdvancePage(@, closure),
            !.processedCount = ClampProcessed(NewProcessedCount(closure, charities)),
            !.commits = @ + 1,
            !.log = "processed"]

\* Faulty variant: the continuation flag is never taken as the end.
SourceExhausted_Never(resp) == FALSE

\* if (!hasMore)
SourceExhausted(resp) == ~resp.hasMore

\* Faulty variant: processNextPage() called at once instead of by setTimeout.
AfterCommit_NoDelay(s, call) ==
  IF NewProcessedCount(call.closure, call.resp.charities) >= BATCH_LIMIT
  THEN OnBatchFull(s)
  ELSE LET t == [s EXCEPT !.hasMorePages = call.resp.hasMore]
       IN IF SourceExhausted(call.resp)
          THEN Halt(t, "complete")
          ELSE ProcessNextPage(t, call.closure, ErrorResponse)

\* Lines 96-117, after the merge: halt on a full batch, else take the
\* continuation flag, halt on its being false, else arm the pacing timer.
AfterCommit(s, call) ==
  IF NewProcessedCount(call.closure, call.resp.charities) >= BATCH_LIMIT
  THEN OnBatchFull(s)
  ELSE LET t == [s EXCEPT !.hasMorePages = call.resp.hasMore]
       IN IF SourceExhausted(call.resp)
          THEN Halt(t, "complete")
          ELSE [t EXCEPT !.calls = Append(@, [call EXCEPT !.pc = "delay"])]

\* The continuation of invocation i once its fetch has settled.
FetchSettled(s, i) ==
  LET call == s.calls[i]
      rest == [s EXCEPT !.calls = RemoveAt(@, i), !.last = Event("settled", call)]
  IN IF call.resp.kind = "error" THEN OnFetchError(rest)
     ELSE IF Len(call.resp.charities) = 0 THEN OnEmptyPage(rest)
     ELSE AfterCommit(CommitPage(rest, call.closure, call.resp.charities), call)

\* setTimeout(() => { setIsProcessing(false); processNextPage(); }, 1000)
TimerFired(s, i, resp) ==
  ProcessNextPage([s EXCEPT !.isProcessing = FALSE, !.calls = RemoveAt(@, i),
                            !.last = Event("timer", s.calls[i])],
                  s.calls[i].closure, resp)

\* ---------------------------------------------------------------- effects

\* Faulty variant: setItem of the records the render added, not of the store.
SnapshotEffect_NewRecordsOnly(prev, s) ==
  IF s.charityData # prev.charityData /\ Len(s.charityData) > 0
  THEN [s EXCEPT !.localStorage =
          JSONstringify(SubSeq(s.charityData, Len(prev.charityData) + 1,
                               Len(s.charityData)))]
  ELSE s

\* useEffect(() => { if (charityData.length > 0) setItem(...) }, [charityData])
SnapshotEffect(prev, s) ==
  IF s.charityData # prev.charityData /\ Len(s.charityData) > 0
  THEN [s EXCEPT !.localStorage = JSONstringify(s.charityData)]
  ELSE s

\* useEffect(() => { if (isRunning && !isProcessing) processNextPage() },
\*           [isRunning, isProcessing, processNextPage])
MonitorEffect(prev, s, resp) ==
  IF /\ <<s.isRunning, s.isProcessing, Closure(s)>>
          # <<prev.isRunning, prev.isProcessing, Closure(prev)>>
     /\ s.isRunning /\ ~s.isProcessing
  THEN ProcessNextPage(s, Closure(s), resp)
  ELSE s

\* The render that follows a handler: prev is the state last rendered, s the
\* state with the handler's updates applied.
Render(prev, s, resp) == MonitorEffect(prev, SnapshotEffect(prev, s), resp)

\* --------------------------------------------------------------- handlers

\* Faulty variant: the configuration is updated before the check.
StartRejected_ConfigFirst(s) ==
  [s EXCEPT !.scraperConfig = updateScraperConfig(@, [sourceUrl |-> s.sourceUrl]),
            !.log = "rejected", !.last = Event("start", NoCall)]

\* addLogMessage('No more items to scrape. ...'); return
StartRejected(s) ==
  [s EXCEPT !.log = "rejected", !.last = Event("start", NoCall)]

\* Faulty variant: no check.
StartRefused_Never(s) == FALSE

\* if (!hasMorePages && currentPage > 1)
StartRefused(s) == ~s.hasMorePages /\ s.currentPage > 1

\* startScraping.  The direct call of processNextPage reads the closure of
\* the render in which the button was clicked; an accepted start begins a new
\* count of fetches.
StartScrapingBody(s, resp) ==
  IF StartRefused(s)
  THEN StartRejected(s)
  ELSE LET newConfig == [s.appConfig EXCEPT !.sourceUrl = s.sourceUrl]
       IN ProcessNextPage(
            [s EXCEPT !.scraperConfig = updateScraperConfig(@, newConfig),
                      !.appConfig = newConfig,
                      !.isRunning = TRUE, !.log = "starting",
                      !.fetchCount = 0,
                      !.last = Event("start", NoCall)],
            Closure(s), resp)

\* onChange={(e) => setSourceUrl(e.target.value)}
SetSourceUrlBody(s, value) ==
  [s EXCEPT !.sourceUrl = value, !.last = Event("url", NoCall)]

\* pauseScraping
PauseScrapingBody(s) ==
  [s EXCEPT !.isRunning = FALSE, !.log = "paused", !.last = Event("pause", NoCall)]

\* Faulty variant: localStorage.removeItem('scrapedData') left out.
ResetScraperBody_KeepsSnapshot(s) ==
  [s EXCEPT !.isRunning = FALSE, !.currentPage = 1, !.processedCount = 0,
            !.log = "reset", !.states = <<>>, !.charityData = <<>>,
            !.hasMorePages = TRUE, !.isProcessing = FALSE,
            !.fetchCount = 0, !.commits = 0,
            !.last = Event("reset", NoCall)]

\* resetScraper, window.confirm answered yes
ResetScraperBody(s) ==
  [s EXCEPT !.isRunning = FALSE, !.currentPage = 1, !.processedCount = 0,
            !.log = "reset", !.states = <<>>, !.charityData = <<>>,
            !.hasMorePages = TRUE, !.isProcessing = FALSE,
            !.localStorage = NoItem, !.fetchCount = 0, !.commits = 0,
            !.last = Event("reset", NoCall)]

\* The order of localeCompare on the characters of the names: punctuation
\* before letters.
CharRank(c) ==
  CASE c = "," -> 1
    [] c = "\"" -> 2
    [] c = "A" -> 3
    [] c = "B" -> 4

\* a.localeCompare(b): negative, zero or positive.
RECURSIVE localeCompare(_, _)
localeCompare(a, b) ==
  IF a = <<>> \/ b = <<>> THEN Len(a) - Len(b)
  ELSE IF CharRank(Head(a)) # CharRank(Head(b))
       THEN CharRank(Head(a)) - CharRank(Head(b))
       ELSE localeCompare(Tail(a), Tail(b))

\* The records of data whose name is among names, by ascending name, those
\* of one name in the order they have in data.
RECURSIVE SortedByName(_, _)
SortedByName(data, names) ==
  IF names = {} THEN <<>>
  ELSE LET least == CHOOSE n \in names : \A m \in names : localeCompare(n, m) <= 0
       IN SelectSeq(data, LAMBDA charity : charity.name = least)
            \o SortedByName(data, names \ {least})

\* Faulty variant: the records of one name in reverse order.
sortedCharities_Unstable(data) ==
  LET reversed == [i \in DOMAIN data |-> data[Len(data) + 1 - i]]
  IN SortedByName(reversed, {data[i].name : i \in DOMAIN data})

\* [...charityData].sort((a, b) => a.name.localeCompare(b.name)):
\* Array.prototype.sort is stable.
sortedCharities(data) == SortedByName(data, {data[i].name : i \in DOMAIN data})

\* text.replace(/"/g, '""')
RECURSIVE replaceQuotes(_)
replaceQuotes(text) ==
  IF text = <<>> THEN <<>>
  ELSE (IF Head(text) = "\"" THEN <<"\"", "\"">> ELSE <<Head(text)>>)
         \o replaceQuotes(Tail(text))

\* Faulty variant: the quotes of a field are not doubled.
Quoted_Unescaped(text) == <<"\"">> \o text \o <<"\"">>

\* `"${text.replace(/"/g, '""')}"`
Quoted(text) == <<"\"">> \o replaceQuotes(text) \o <<"\"">>

\* `"${charity.email?.replace(/"/g, '""') || ''}"`
QuotedEmail(email) == IF email = Null THEN <<"\"", "\"">> ELSE Quoted(email[1])

\* `"${charity.state}"`: the state is written as it is.
QuotedState(state) == <<"\"">> \o state \o <<"\"">>

\* array.join(separator)
RECURSIVE join(_, _)
join(texts, separator) ==
  IF texts = <<>> THEN <<>>
  ELSE IF Len(texts) = 1 THEN texts[1]
  ELSE texts[1] \o separator \o join(Tail(texts), separator)

\* const headers = ['Name', 'Address', 'Website', 'Email', 'State']
headers ==
  << <<"N", "a", "m", "e">>, <<"A", "d", "d", "r", "e", "s", "s">>,
     <<"W", "e", "b", "s", "i", "t", "e">>, <<"E", "m", "a", "i", "l">>,
     <<"S", "t", "a", "t", "e">> >>

\* The row of one record.
CsvRow(charity) ==
  join(<<Quoted(charity.name), Quoted(charity.address), Quoted(charity.website),
         QuotedEmail(charity.email), QuotedState(charity.state)>>, <<",">>)

\* const csvContent = [headers.join(','), ...rows].join('\n')
csvContent(rows) ==
  join(<<join(headers, <<",">>)>> \o [i \in DOMAIN rows |-> CsvRow(rows[i])],
       <<"\n">>)

\* The Blob of an export, kept as the records it serialises: its text is
\* csvContent of them.
Blob(rows) == [present |-> TRUE, rows |-> rows]

\* Faulty variant: charityData.sort(...), the store sorted in place.
ExportToCSVBody_SortsInPlace(s) ==
  IF Len(s.charityData) = 0
  THEN [s EXCEPT !.log = "nodata", !.last = Event("export", NoCall)]
  ELSE [s EXCEPT !.log = "exported", !.charityData = sortedCharities(@),
                 !.last = [Event("export", NoCall) EXCEPT
                             !.file = Blob(sortedCharities(s.charityData))]]

\* Faulty variant: the charityData.length === 0 check of lines 178-181 left
\* out, so that an empty store is serialised like any other.
ExportToCSVBody_NoEmptyCheck(s) ==
  [s EXCEPT !.log = "exported",
            !.last = [Event("export", NoCall) EXCEPT
                        !.file = Blob(sortedCharities(s.charityData))]]

\* exportToCSV; setIsExporting(true) and (false) in one handler leave
\* isExporting false.
ExportToCSVBody(s) ==
  IF Len(s.charityData) = 0
  THEN [s EXCEPT !.log = "nodata", !.last = Event("export", NoCall)]
  ELSE [s EXCEPT !.log = "exported",
                 !.last = [Event("export", NoCall) EXCEPT
                             !.file = Blob(sortedCharities(s.charityData))]]

\* Faulty variant: the records are restored in reverse.
RestoreEffect_Reversed(s) ==
  IF ~s.localStorage.present THEN s
  ELSE LET parsed == JSONparse(s.localStorage)
       IN IF parsed.threw THEN s
          ELSE [s EXCEPT !.charityData =
                           [i \in DOMAIN parsed.value |->
                              parsed.value[Len(parsed.value) + 1 - i]],
                         !.states = CountStates(<<>>, parsed.value),
                         !.log = "loaded"]

\* The mount: the restore effect, then the render it causes.
RestoreEffect(s) ==
  IF ~s.localStorage.present THEN s
  ELSE LET parsed == JSONparse(s.localStorage)
       IN IF parsed.threw THEN s
          ELSE [s EXCEPT !.charityData = parsed.value,
                         !.states = CountStates(<<>>, parsed.value),
                         !.log = "loaded"]

Mount(item) ==
  LET first == [Fresh EXCEPT !.localStorage = item]
  IN SnapshotEffect(first, RestoreEffect(first))

\* ------------------------------------------------------- what the UI allows

\* The Start button: shown when !isRunning, disabled when
\* (!hasMorePages && currentPage > 1) || isProcessing.
StartEnabled ==
  ~isRunning /\ ~((~hasMorePages /\ currentPage > 1) \/ isProcessing)

\* The Pause button: shown when isRunning.
PauseEnabled == isRunning

\* The Reset button: disabled={isProcessing}.
ResetEnabled == ~isProcessing

\* The export buttons: disabled or absent while charityData is empty.
ExportEnabled == Len(charityData) > 0

\* The Source URL input: disabled={isRunning}.
SourceUrlEnabled == ~isRunning

\* ---------------------------------------------------------------- actions

Apply(s) ==
  /\ Len(s.calls) <= MaxCalls
  /\ isRunning' = s.isRunning
  /\ currentPage' = s.currentPage
  /\ processedCount' = s.processedCount
  /\ log' = s.log
  /\ states' = s.states
  /\ charityData' = s.charityData
  /\ hasMorePages' = s.hasMorePages
  /\ isProcessing' = s.isProcessing
  /\ localStorage' = s.localStorage
  /\ sourceUrl' = s.sourceUrl
  /\ appConfig' = s.appConfig
  /\ scraperConfig' = s.scraperConfig
  /\ calls' = s.calls
  /\ fetchCount' = s.fetchCount
  /\ commits' = s.commits
  /\ last' = s.last

\* The outcomes to consider for a fetch the render after a handler may issue:
\* those of the source if the monitor effect issues one, else a single one.
Outcomes(source, s) ==
  IF MonitorEffect(Cur, s, ErrorResponse) # s THEN source ELSE {ErrorResponse}

\* A handler that itself issues no fetch, then the render.
Handled(s, source) ==
  \E resp \in Outcomes(source, SnapshotEffect(Cur, s)) : Apply(Render(Cur, s, resp))

StartScraping(source) ==
  /\ StartEnabled
  /\ \E resp \in source : Apply(Render(Cur, StartScrapingBody(Cur, resp), resp))

PauseScraping(source) ==
  /\ PauseEnabled
  /\ Handled(PauseScrapingBody(Cur), source)

ResetScraper(source) ==
  /\ ResetEnabled
  /\ \E confirmed \in BOOLEAN :
       Handled(IF confirmed THEN ResetScraperBody(Cur) ELSE Cur, source)

ExportToCSV(source) ==
  /\ ExportEnabled
  /\ Handled(ExportToCSVBody(Cur), source)

SetSourceUrl(source) ==
  /\ SourceUrlEnabled
  /\ \E value \in Urls \ {sourceUrl} : Handled(SetSourceUrlBody(Cur, value), source)

FetchCompletes(source) ==
  \E i \in DOMAIN calls :
    /\ calls[i].pc = "fetch"
    /\ Handled(FetchSettled(Cur, i), source)

TimerFires(source) ==
  \E i \in DOMAIN calls, resp \in source :
    /\ calls[i].pc = "delay"
    /\ Apply(Render(Cur, TimerFired(Cur, i, resp), resp))

\* ---------------------------------------------------------- specifications

StartsAs(s) ==
  /\ isRunning = s.isRunning
  /\ currentPage = s.currentPage
  /\ processedCount = s.processedCount
  /\ log = s.log
  /\ states = s.states
  /\ charityData = s.charityData
  /\ hasMorePages = s.hasMorePages
  /\ isProcessing = s.isProcessing
  /\ localStorage = s.localStorage
  /\ sourceUrl = s.sourceUrl
  /\ appConfig = s.appConfig
  /\ scraperConfig = s.scraperConfig
  /\ calls = s.calls
  /\ fetchCount = s.fetchCount
  /\ commits = s.commits
  /\ last = s.last

Init == \E item \in InitialItems : StartsAs(Mount(item))

\* The control panel against any page source.
Next ==
  \/ StartScraping(AnySource(currentPage))
  \/ PauseScraping(AnySource(currentPage))
  \/ ResetScraper(AnySource(currentPage))
  \/ ExportToCSV(AnySource(currentPage))
  \/ SetSourceUrl(AnySource(currentPage))
  \/ FetchCompletes(AnySource(currentPage))
  \/ TimerFires(AnySource(currentPage))

Spec == Init /\ [][Next]_vars

\* The control panel against the source of the exhaustion scenario, from
\* construction and without reset.
NextExhaust ==
  \/ StartScraping(ScenarioSource(fetchCount + 1))
  \/ PauseScraping(ScenarioSource(fetchCount + 1))
  \/ ExportToCSV(ScenarioSource(fetchCount + 1))
  \/ FetchCompletes(ScenarioSource(fetchCount + 1))
  \/ TimerFires(ScenarioSource(fetchCount + 1))

\* A fetch in flight settles and an armed pacing timer fires: the event loop
\* runs every settled promise and every expired timer.
SpecExhaust ==
  /\ Init
  /\ [][NextExhaust]_vars
  /\ WF_vars(FetchCompletes(ScenarioSource(fetchCount + 1)))
  /\ WF_vars(TimerFires(ScenarioSource(fetchCount + 1)))

\* The handlers as the operations of the controller, called in any state:
\* startScraping, pauseScraping, resetScraper and exportToCSV without regard
\* to the buttons that call them being disabled or not rendered.
StartCalled(source) ==
  \E resp \in source : Apply(Render(Cur, StartScrapingBody(Cur, resp), resp))

PauseCalled(source) == Handled(PauseScrapingBody(Cur), source)

ResetCalled(source) == Handled(ResetScraperBody(Cur), source)

ExportCalled(source) == Handled(ExportToCSVBody(Cur), source)

\* The runs considered: processedCount within MaxProcessed and at most k
\* invocations of processNextPage pending.
Within(k) == processedCount <= MaxProcessed /\ Len(calls) <= k

NextCalls ==
  \/ StartCalled(PlainSource(currentPage)) /\ Within(MaxPending)'
  \/ PauseCalled(PlainSource(currentPage)) /\ Within(MaxPending)'
  \/ ResetCalled(PlainSource(currentPage)) /\ Within(MaxPending)'
  \/ ExportCalled(PlainSource(currentPage)) /\ Within(MaxPending)'
  \/ SetSourceUrl(PlainSource(currentPage)) /\ Within(MaxPending)'
  \/ FetchCompletes(PlainSource(currentPage)) /\ Within(MaxPending)'
  \/ TimerFires(PlainSource(currentPage)) /\ Within(MaxPending)'

SpecCalls == Init /\ [][NextCalls]_vars

\* The same with a second invocation allowed next to a pending one.
NextReentry ==
  \/ StartCalled(PlainSource(currentPage)) /\ Within(MaxCalls)'
  \/ PauseCalled(PlainSource(currentPage)) /\ Within(MaxCalls)'
  \/ ResetCalled(PlainSource(currentPage)) /\ Within(MaxCalls)'
  \/ ExportCalled(PlainSource(currentPage)) /\ Within(MaxCalls)'
  \/ SetSourceUrl(PlainSource(currentPage)) /\ Within(MaxCalls)'
  \/ FetchCompletes(PlainSource(currentPage)) /\ Within(MaxCalls)'
  \/ TimerFires(PlainSource(currentPage)) /\ Within(MaxCalls)'

SpecReentry == Init /\ [][NextReentry]_vars

\* exportToCSV applied to a store restored from a snapshot.
InitExport == \E data \in ExportStores : StartsAs(Mount(JSONstringify(data)))

NextExport == ExportToCSV(PlainSource(currentPage))

SpecExport == InitExport /\ [][NextExport]_vars

\* A reload of the page: the pending fetches and timers go with the old
\* document, App and the module of the page source are constructed anew, and
\* the restore effect finds what localStorage holds.
Reload == Apply(Mount(localStorage))

\* The control panel with reloads, for stores of up to MaxStore records.
NextReload ==
  \/ StartScraping(PlainSource(currentPage)) /\ Len(charityData') <= MaxStore
  \/ PauseScraping(PlainSource(currentPage)) /\ Len(charityData') <= MaxStore
  \/ ResetScraper(PlainSource(currentPage)) /\ Len(charityData') <= MaxStore
  \/ ExportToCSV(PlainSource(currentPage)) /\ Len(charityData') <= MaxStore
  \/ SetSourceUrl(PlainSource(currentPage)) /\ Len(charityData') <= MaxStore
  \/ FetchCompletes(PlainSource(currentPage)) /\ Len(charityData') <= MaxStore
  \/ TimerFires(PlainSource(currentPage)) /\ Len(charityData') <= MaxStore
  \/ Reload /\ Len(charityData') <= MaxStore

SpecReload == Init /\ [][NextReload]_vars

\* The control panel on the built-in page source, up to cursor MaxCursor:
\* every pending fetch has an answer of fetchCharityPage for the page it
\* asked for.
Answered ==
  /\ currentPage <= MaxCursor
  /\ \A i \in DOMAIN calls : calls[i].resp \in BuiltinResponses(calls[i].page)

NextBuiltin ==
  \/ StartScraping(BuiltinSource) /\ Answered'
  \/ PauseScraping(BuiltinSource) /\ Answered'
  \/ ResetScraper(BuiltinSource) /\ Answered'
  \/ FetchCompletes(BuiltinSource) /\ Answered'
  \/ TimerFires(BuiltinSource) /\ Answered'

SpecBuiltin == Init /\ [][NextBuiltin]_vars

\* The last page of the built-in source: the 20 of fetchCharityPage.
LastPage == 20

\* One run on the built-in page source, from start() on, without pause() or
\* reset(), up to RunFetches fetches.  A fetch in flight settles and an armed
\* pacing timer fires.  The pages a step can ask for are page 1, the page at
\* the cursor before or after the step, and the page of a pending invocation.
RunSource ==
  UNION {BuiltinResponses(pageNumber) :
           pageNumber \in {1, currentPage, currentPage + 1}
                             \cup {calls[i].page : i \in DOMAIN calls}}

RunAnswered ==
  /\ fetchCount <= RunFetches
  /\ \A i \in DOMAIN calls : calls[i].resp \in BuiltinResponses(calls[i].page)

NextRun ==
  \/ StartScraping(RunSource) /\ RunAnswered'
  \/ FetchCompletes(RunSource) /\ RunAnswered'
  \/ TimerFires(RunSource) /\ RunAnswered'

SpecRun ==
  /\ Init
  /\ [][NextRun]_vars
  /\ WF_vars(FetchCompletes(RunSource) /\ RunAnswered')
  /\ WF_vars(TimerFires(RunSource) /\ RunAnswered')

\* scrapeWebpage applied to a document of one item with an address.
Scrape ==
  \E address \in Addresses :
    Apply([Cur EXCEPT !.last =
             [Event("scraped", NoCall) EXCEPT
                !.scraped = scrapeWebpage(Html(<<Item(NameA, address)>>))]])

NextScrape == Scrape

SpecScrape == Init /\ [][NextScrape]_vars

\* ----------------------------------------------------------------- claims

\* What the last handler resumed: a fetch that settled with a page.
SettledOk(ev) == ev.op = "settled" /\ ev.call.resp.kind = "ok"
SettledPage(ev) == ev.call.resp.charities
SettledNonEmpty(ev) == SettledOk(ev) /\ Len(SettledPage(ev)) > 0
SettledEmpty(ev) == SettledOk(ev) /\ Len(SettledPage(ev)) = 0
SettledError(ev) == ev.op = "settled" /\ ev.call.resp.kind = "error"

FetchInFlight == \E i \in DOMAIN calls : calls[i].pc = "fetch"
TimerPending == \E i \in DOMAIN calls : calls[i].pc = "delay"

\* C1. Monotonic cursor: the cursor is 1 plus the number of non-empty pages
\* committed since construction or the last reset, and no step lowers it
\* except a confirmed reset, which sets it to 1.
C1_MonotonicCursor ==
  /\ [](currentPage = 1 + commits)
  /\ [][currentPage' < currentPage => (last'.op = "reset" /\ currentPage' = 1)]_vars

\* Two pages have been committed in a row and the cursor is 3.
C1_Witness == commits = 2 /\ currentPage = 3 /\ SettledNonEmpty(last)

\* C2. Batch ceiling: processedCount stays within 0..BATCH_LIMIT.
C2_BatchCeiling == processedCount >= 0 /\ processedCount <= BATCH_LIMIT

\* A commit has filled the batch with more records than the batch had room for.
C2_Witness ==
  /\ SettledNonEmpty(last)
  /\ last.call.closure.processedCount + Len(SettledPage(last)) > BATCH_LIMIT
  /\ processedCount = BATCH_LIMIT

\* The number of stored records whose region is r.
StoredIn(r) == Cardinality({i \in DOMAIN charityData : charityData[i].state = r})

RECURSIVE SumOver(_, _)
SumOver(f, keys) ==
  IF keys = {} THEN 0
  ELSE LET k == CHOOSE x \in keys : TRUE IN f[k] + SumOver(f, keys \ {k})

\* C3. Tally consistency: the counts of states sum to the number of stored
\* records, and every region's count is the number of stored records of
\* that region.
C3_TallyConsistency ==
  /\ SumOver(states, DOMAIN states) = Len(charityData)
  /\ \A r \in DOMAIN states \cup {charityData[i].state : i \in DOMAIN charityData} :
       /\ r \in DOMAIN states
       /\ states[r] = StoredIn(r)

\* A page has been merged into a store restored from a snapshot, and the
\* store holds records of two regions.
C3_Witness ==
  /\ SettledNonEmpty(last)
  /\ Len(charityData) > Len(SettledPage(last))
  /\ Cardinality(DOMAIN states) = 2

\* C4. After pause(), no fetch is issued until the next start(): the pacing
\* timer of a paused controller issues no fetch.
C4_PauseStopsLoop == (last.op = "timer" /\ last.issued # 0) => isRunning

\* The regions of a page, and the number of its records of region r.
RegionsOf(page) == {page[i].state : i \in DOMAIN page}
CountIn(page, r) == Cardinality({i \in DOMAIN page : page[i].state = r})

\* C5. A fetch in flight when pause() is called still commits: its page is
\* appended to the store, counted into the tally, and the cursor advances by 1.
C5_PausedFetchCommits ==
  [][(~isRunning /\ SettledNonEmpty(last'))
       => /\ charityData' = charityData \o SettledPage(last')
          /\ DOMAIN states' = DOMAIN states \cup RegionsOf(SettledPage(last'))
          /\ \A r \in DOMAIN states' :
               states'[r] = (IF r \in DOMAIN states THEN states[r] ELSE 0)
                              + CountIn(SettledPage(last'), r)
          /\ currentPage' = currentPage + 1]_vars

\* A non-empty page has been committed while the controller was paused.
C5_Witness == SettledNonEmpty(last) /\ ~isRunning /\ TimerPending

\* C6. Batch resumption: a start() accepted when the batch is full and the
\* source has more pages makes the controller Running and issues the fetch
\* of the page at the cursor.
C6_BatchResumption ==
  (last.op = "start" /\ log # "rejected" /\ processedCount >= BATCH_LIMIT /\ hasMorePages)
    => (isRunning /\ last.issued = currentPage)

\* C7. A commit that brings processedCount to BATCH_LIMIT halts the loop as
\* a full batch: not running, not processing, no timer armed, no fetch
\* issued, the batch message logged, and hasMorePages left as it was, not
\* taken from the page's continuation flag.
C7_BatchFullHalts ==
  [][(SettledNonEmpty(last') /\ processedCount' = BATCH_LIMIT)
       => /\ ~isRunning' /\ ~isProcessing'
          /\ log' = "batch"
          /\ ~\E i \in DOMAIN calls' : calls'[i].closure = last'.call.closure
          /\ last'.issued = 0
          /\ hasMorePages' = hasMorePages]_vars

\* A commit of a page whose continuation flag was false has filled the batch
\* while hasMorePages was true.
C7_Witness ==
  /\ SettledNonEmpty(last) /\ processedCount = BATCH_LIMIT
  /\ ~last.call.resp.hasMore /\ hasMorePages

\* The run of the scenario has ended as Complete.
ScenarioDone ==
  /\ ~isRunning /\ ~isProcessing /\ ~hasMorePages
  /\ calls = <<>>
  /\ fetchCount = ScenarioCalls
  /\ commits = ScenarioCalls

\* C8. Exhaustion scenario: against the scenario's source, no more than
\* ScenarioCalls fetches are issued, the loop is over only once all of them
\* have been, then with hasMorePages false and the controller halted, and a
\* run once started gets there.
C8_ExhaustionScenario ==
  /\ [](fetchCount <= ScenarioCalls)
  /\ []((fetchCount > 0 /\ calls = <<>>) => ScenarioDone)
  /\ (fetchCount > 0) ~> ScenarioDone

\* The fifth fetch has settled and ended the run.
C8_Witness == ScenarioDone /\ SettledNonEmpty(last) /\ log = "complete"

\* C9. A fetch that settles with zero records ends the run as exhausted,
\* whatever its continuation flag: hasMorePages false, halted, no timer and
\* no fetch, and the cursor, the count, the store and the tally untouched.
C9_EmptyPageCompletes ==
  [][SettledEmpty(last')
       => /\ ~hasMorePages' /\ ~isRunning' /\ ~isProcessing'
          /\ log' = "complete"
          /\ last'.issued = 0
          /\ ~\E i \in DOMAIN calls' : calls'[i].closure = last'.call.closure
          /\ UNCHANGED <<currentPage, processedCount, charityData, states>>]_vars

\* An empty page whose continuation flag was true has ended a run.
C9_Witness == SettledEmpty(last) /\ last.call.resp.hasMore /\ log = "complete"

\* C10. A failed fetch halts the loop and loses nothing: the controller is
\* not running, and the store, the tally, the cursor, the count and
\* hasMorePages are what they were when the fetch was issued, no step having
\* changed them while it was in flight.
C10_FailureKeepsData ==
  /\ [][SettledError(last')
          => /\ ~isRunning' /\ ~isProcessing'
             /\ log' = "error"
             /\ last'.issued = 0
             /\ ~\E i \in DOMAIN calls' : calls'[i].closure = last'.call.closure
             /\ UNCHANGED <<charityData, states, currentPage, processedCount,
                            hasMorePages>>]_vars
  /\ [][(FetchInFlight /\ last'.op # "settled")
          => UNCHANGED <<charityData, states, currentPage, processedCount,
                         hasMorePages>>]_vars

\* A fetch has failed after pages had been committed.
C10_Witness == SettledError(last) /\ log = "error" /\ commits > 0

\* C11. No automatic retry, resumable by start(): the step that handles a
\* failed fetch issues no fetch and leaves none pending, a step other than
\* start issues no fetch while the controller is halted, and a start() that
\* follows the failure is accepted and issues the fetch of the page index
\* that failed.
C11_RetryByStart ==
  /\ [][SettledError(last') => (last'.issued = 0 /\ calls' = <<>>)]_vars
  /\ [][(~isRunning /\ ~isProcessing /\ last'.op # "start") => last'.issued = 0]_vars
  /\ [][(SettledError(last) /\ last'.op = "start")
          => (log' # "rejected" /\ isRunning' /\ last'.issued = last.call.page)]_vars

\* C12. A start() called while hasMorePages is false and currentPage > 1 is
\* rejected: it logs, issues no fetch, adds no invocation, and leaves
\* isRunning, isProcessing, the cursor, processedCount, hasMorePages, the
\* store, the tally, the snapshot, the Source URL and both copies of the
\* scraper configuration as they were.
C12_RejectedStartIsInert ==
  [][(last'.op = "start" /\ ~hasMorePages /\ currentPage > 1)
       => /\ log' = "rejected"
          /\ last'.issued = 0
          /\ UNCHANGED <<isRunning, isProcessing, currentPage, processedCount,
                         hasMorePages, charityData, states, localStorage,
                         sourceUrl, appConfig, scraperConfig, calls,
                         fetchCount>>]_vars

\* A start() has been rejected with a Source URL typed in that differs from
\* the configuration's.
C12_Witness ==
  /\ last.op = "start" /\ log = "rejected"
  /\ sourceUrl # scraperConfig.sourceUrl

\* The run has ended with the source found exhausted: halted, hasMorePages
\* false.
Complete == ~isRunning /\ ~isProcessing /\ ~hasMorePages

InFlight == {i \in DOMAIN calls : calls[i].pc = "fetch"}

C15_ResetClearsEverything ==
  last.op = "reset"
    => /\ charityData = <<>> /\ states = <<>>
       /\ currentPage = 1 /\ processedCount = 0
       /\ hasMorePages /\ ~isRunning /\ ~isProcessing
       /\ last.issued = 0
       /\ localStorage = NoItem

\* A reset has run while the pacing timer of a loop that had committed a
\* page was armed.
C15_Witness == last.op = "reset" /\ TimerPending

\* A reader of delimited text with "-quoting and ""-escaping.  A character
\* is outside quotes when an even number of double quotes precedes it: the
\* two quotes of an escaped pair cancel.  Rows end at the line breaks outside
\* quotes, fields at the commas outside quotes; of a field's double quotes
\* only the second of each escaped pair is kept.
QuotesBefore(text, k) == Cardinality({j \in 1..(k - 1) : text[j] = "\""})
Outside(text, k) == QuotesBefore(text, k) % 2 = 0

\* The i-th smallest of a set of positions.
Kth(positions, i) ==
  CHOOSE p \in positions : Cardinality({q \in positions : q < p}) = i - 1

\* The pieces of text between the separators that are outside quotes.
Split(text, separator) ==
  LET breaks == {k \in DOMAIN text : text[k] = separator /\ Outside(text, k)}
      n == Cardinality(breaks)
  IN [i \in 1..(n + 1) |->
        SubSeq(text,
               IF i = 1 THEN 1 ELSE Kth(breaks, i - 1) + 1,
               IF i = n + 1 THEN Len(text) ELSE Kth(breaks, i) - 1)]

Unquoted(field) ==
  LET kept == {j \in DOMAIN field :
                 \/ field[j] # "\""
                 \/ Outside(field, j) /\ j > 1 /\ field[j - 1] = "\""}
  IN [i \in 1..Cardinality(kept) |-> field[Kth(kept, i)]]

parseDelimited(text) ==
  LET lines == Split(text, "\n")
      fieldsOf(line) == LET fields == Split(line, ",")
                        IN [i \in DOMAIN fields |-> Unquoted(fields[i])]
  IN [i \in DOMAIN lines |-> fieldsOf(lines[i])]

\* The five field values of a record: name, address, website, the email or
\* the empty string, state.
FieldsOf(charity) ==
  <<charity.name, charity.address, charity.website,
    IF charity.email = Null THEN <<>> ELSE charity.email[1], charity.state>>

\* The characters of a text.
CharsOf(text) == {text[k] : k \in DOMAIN text}

\* C16. Export round-trip: the text of an export, read back, is the header
\* row followed by one row per exported record, whose five fields are the
\* record's name, address, website, email or empty string, and state.
C16_ExportRoundTrip ==
  last.file.present
    => LET read == parseDelimited(csvContent(last.file.rows))
       IN /\ Len(read) = 1 + Len(last.file.rows)
          /\ read[1] = headers
          /\ \A i \in DOMAIN last.file.rows : read[i + 1] = FieldsOf(last.file.rows[i])

\* Records have been exported whose names and addresses hold double quotes
\* and commas, one of them with no email.
C16_Witness ==
  /\ last.file.present
  /\ \E i \in DOMAIN last.file.rows :
       /\ {"\"", ","} \subseteq CharsOf(last.file.rows[i].name)
       /\ {"\"", ",", "\n"} \subseteq CharsOf(last.file.rows[i].address)
       /\ last.file.rows[i].email = Null
  /\ \E i \in DOMAIN last.file.rows : "\"" \in CharsOf(FieldsOf(last.file.rows[i])[4])

\* The ways of arranging n records.
Arrangements(n) ==
  {f \in [1..n -> 1..n] : \A i, j \in 1..n : f[i] = f[j] => i = j}

\* C17. Export order: the rows of an export are the stored records arranged
\* by ascending name, the records of one name in the order they have in the
\* store.
C17_ExportOrder ==
  last.file.present
    => LET rows == last.file.rows
       IN /\ Len(rows) = Len(charityData)
          /\ \A i, j \in DOMAIN rows :
               i < j => localeCompare(rows[i].name, rows[j].name) <= 0
          /\ \E f \in Arrangements(Len(rows)) :
               /\ \A i \in DOMAIN rows : rows[i] = charityData[f[i]]
               /\ \A i, j \in DOMAIN rows :
                    (i < j /\ rows[i].name = rows[j].name) => f[i] < f[j]

\* A store [B1, A, B2], B1 and B2 of one name and different, has been
\* exported as [A, B1, B2].
C17_Witness ==
  /\ last.file.present
  /\ Len(charityData) = 3
  /\ charityData[1].name = charityData[3].name
  /\ charityData[1] # charityData[3]
  /\ localeCompare(charityData[2].name, charityData[1].name) < 0
  /\ last.file.rows = <<charityData[2], charityData[1], charityData[3]>>

\* C18. Export never mutates: an export leaves the store, record for record
\* in its order, the tally, the cursor, processedCount, isRunning,
\* isProcessing, hasMorePages, the snapshot and the pending invocations as
\* they were.
C18_ExportLeavesStore ==
  [][last'.op = "export"
       => UNCHANGED <<charityData, states, currentPage, processedCount,
                      isRunning, isProcessing, hasMorePages, localStorage,
                      calls>>]_vars

\* A store that is not in the order of its names has been exported while a
\* fetch was in flight.
C18_Witness ==
  /\ last.op = "export" /\ last.file.present
  /\ last.file.rows # charityData
  /\ FetchInFlight

\* C19. Export of an empty store is a reported no-op: the handler reports that
\* there is nothing to export, builds no file, and leaves every piece of store
\* and controller state as it was.
C19_EmptyExportIsNoOp ==
  [][(last'.op = "export" /\ charityData = <<>>)
       => /\ log' = "nodata"
          /\ ~last'.file.present
          /\ UNCHANGED <<charityData, states, currentPage, processedCount,
                         isRunning, isProcessing, hasMorePages, localStorage,
                         calls, fetchCount, sourceUrl, appConfig,
                         scraperConfig>>]_vars

\* exportToCSV has been called on an empty store while a fetch was in flight.
C19_Witness ==
  /\ last.op = "export" /\ log = "nodata"
  /\ charityData = <<>> /\ FetchInFlight

\* C20. Snapshot after every merge: once a non-empty page has been committed
\* and the snapshot effect has run, the localStorage entry is the
\* serialisation of the whole store, every record in store order, not of the
\* page alone.
C20_SnapshotHoldsStore ==
  SettledNonEmpty(last) => localStorage = JSONstringify(charityData)

\* A page has been committed to a store that already held records, and the
\* entry holds them all.
C20_Witness ==
  /\ SettledNonEmpty(last)
  /\ Len(charityData) > Len(SettledPage(last))
  /\ localStorage.present /\ localStorage.value = charityData

\* C21. Snapshot/restore round trip: a start that finds a parseable snapshot
\* sets the store to the records of the snapshot in their order and the tally
\* to the number of those records per region, whatever the tally was before.
C21_RestoreRoundTrip ==
  [][(last'.op = "mount" /\ localStorage.present /\ ~JSONparse(localStorage).threw)
       => LET snapshot == JSONparse(localStorage).value
          IN /\ charityData' = snapshot
             /\ DOMAIN states' = RegionsOf(snapshot)
             /\ \A r \in RegionsOf(snapshot) : states'[r] = CountIn(snapshot, r)]_vars

\* The page has been reloaded on a snapshot the component wrote itself: the
\* two records it had found at its first start and one it had fetched.
C21_Witness ==
  /\ last.op = "mount" /\ log = "loaded"
  /\ Len(charityData) = 3 /\ Cardinality(DOMAIN states) = 2

\* C22. Corrupt snapshot recovery: a start that finds an unparseable entry
\* does not fail, begins with an empty store and an empty tally, and leaves
\* no entry in localStorage.
C22_CorruptSnapshotDiscarded ==
  [][(last'.op = "mount" /\ localStorage.present /\ JSONparse(localStorage).threw)
       => /\ charityData' = <<>> /\ states' = <<>>
          /\ ~localStorage'.present]_vars

\* C23. Every fetch asks for the page the cursor holds when the fetch is
\* issued, the fetches the pacing timer starts included.
C23_FetchesCursorPage == last.issued # 0 => last.issued = currentPage

Min(a, b) == IF a < b THEN a ELSE b

\* C24. Every commit of a page of k >= 1 records makes processedCount the
\* lesser of BATCH_LIMIT and its value before the commit plus k, in every
\* iteration of the loop.
C24_CountAccumulates ==
  [][SettledNonEmpty(last')
       => processedCount' = Min(processedCount + Len(SettledPage(last')),
                                BATCH_LIMIT)]_vars

\* C25. After every commit of a page of at least one record, hasMorePages is
\* the continuation flag that came with the page, also when the commit fills
\* the batch.
C25_FlagFollowsPage ==
  [][SettledNonEmpty(last') => hasMorePages' = last'.call.resp.hasMore]_vars

\* C26. Fetch precondition: a fetch is issued only while the controller is
\* running, processedCount is below BATCH_LIMIT and hasMorePages is true, all
\* three as they are when the fetch is issued.
C26_FetchPrecondition ==
  last.issued # 0
    => (isRunning /\ processedCount < BATCH_LIMIT /\ hasMorePages)

\* C27. The check at the head of the loop, run while the controller is
\* running with a full batch, halts the loop as paused: the controller is
\* never running with no fetch in flight and no pacing timer armed.
C27_NoIdleRunning == isRunning => (FetchInFlight \/ TimerPending)

\* The sequence a is the beginning of the sequence b.
IsPrefix(a, b) == Len(a) <= Len(b) /\ a = SubSeq(b, 1, Len(a))

\* C28. Append-only merge: the commit of a page makes the store the store
\* before it followed by the records of the page in their order, and no step
\* but a reset removes or changes a stored record: the store before a step is
\* the beginning of the store after it.
C28_AppendOnly ==
  /\ [][SettledNonEmpty(last') => charityData' = charityData \o SettledPage(last')]_vars
  /\ [][last'.op # "reset" => IsPrefix(charityData, charityData')]_vars

\* A page of two records has been committed to a store that held records of
\* the same names already.
C28_Witness ==
  /\ SettledNonEmpty(last) /\ Len(SettledPage(last)) = 2
  /\ Len(charityData) = 4
  /\ charityData[3].name = charityData[1].name
  /\ charityData[3].name # charityData[4].name

\* C29. Pacing: the step that commits a page issues no fetch, and while the
\* controller is running a fetch is issued by the firing of the pacing timer
\* only, so that the delay lies between every commit and the next fetch of a
\* running period.
C29_Pacing ==
  /\ [](SettledNonEmpty(last) => last.issued = 0)
  /\ [][(isRunning /\ last'.issued # 0) => last'.op = "timer"]_vars

\* The pacing timer armed by a commit has fired and issued the next fetch of
\* a running period.
C29_Witness ==
  /\ last.op = "timer" /\ last.issued # 0
  /\ isRunning /\ commits > 0 /\ FetchInFlight

\* C30. A failure inside the page source reaches the controller as a fetch
\* failure: the fetch whose request was rejected settles as an error, the
\* error is logged and the controller halts, with hasMorePages as it was.
C30_SourceFailureIsFetchFailure ==
  [][(last'.op = "settled" /\ last'.call.resp.net = Rejected)
       => /\ SettledError(last')
          /\ log' = "error" /\ ~isRunning'
          /\ hasMorePages' = hasMorePages]_vars

\* The entries of the table whose name the address contains, and those of
\* them whose name is not a part of the name of another one (Virginia is a
\* part of West Virginia).
Contained(address) ==
  {j \in DOMAIN statesTable : includes(address, statesTable[j][1])}
Whole(address) ==
  {j \in Contained(address) :
     \A k \in Contained(address) \ {j} :
       ~includes(statesTable[k][1], statesTable[j][1])}

\* C31. Region derivation precedence: the state of a scraped record is (a)
\* the two capitals of the leftmost code-and-postal-code match in its
\* address, if there is one; (b) otherwise the code of a region name the
\* address contains, West Virginia giving WV; (c) otherwise Unknown.
C31_RegionPrecedence ==
  \A i \in DOMAIN last.scraped :
    LET address == last.scraped[i].address
        state == last.scraped[i].state
        starts == {k \in DOMAIN address : ZipAt(address, k)}
    IN IF starts # {}
       THEN state = SubSeq(address, Least(starts), Least(starts) + 1)
       ELSE IF Contained(address) # {}
            THEN \E j \in Whole(address) : state = statesTable[j][2]
            ELSE state = Unknown

\* C32. No page is ingested twice: since the last reset the pages committed
\* are the pages 1, 2, 3, ... in turn, and no fetch asks for a page that has
\* been committed.
C32_NoPageTwice ==
  /\ SettledNonEmpty(last) => last.call.page = commits
  /\ last.issued # 0 => last.issued > commits

\* C33. Termination: on the built-in page source a run started by start()
\* issues no more than LastPage fetches and comes to rest complete, with
\* hasMorePages false and the cursor at LastPage + 1 after LastPage fetches.
C33_Termination ==
  /\ [](fetchCount <= LastPage)
  /\ (last.op = "start")
       ~> (Complete /\ currentPage = LastPage + 1 /\ fetchCount = LastPage)

\* The controller as a reset leaves it, no start having been accepted since.
AsReset ==
  /\ charityData = <<>> /\ states = <<>>
  /\ currentPage = 1 /\ processedCount = 0
  /\ ~localStorage.present
  /\ ~isRunning /\ fetchCount = 0

====
